---- MODULE Spec2Model ----
(***************************************************************************)
(* Subscription subsystem of rust-oracle (src/src/subscr): the form        *)
(* builder, submit, the Drop of a Subscription, the trampoline             *)
(* callback_wrapper run by the external delivery thread, and the decoding  *)
(* of a raw message into an event.                                         *)
(*                                                                         *)
(* One application thread builds forms, submits them and drops the         *)
(* subscriptions.  The external system (ODPI-C) keeps the registrations    *)
(* and calls the trampoline on its own thread, per registration.           *)
(***************************************************************************)
EXTENDS Integers, Sequences, FiniteSets, TLC

\* ------------------------------------------------------------------ bounds

MaxSubs == 1
MaxDeliveries == 2
MaxErrInfo == 1

Ids == 1..MaxSubs

\* ------------------------------------------------- constants of the binding

DPI_SUBSCR_NAMESPACE_AQ == 1
DPI_SUBSCR_NAMESPACE_DBCHANGE == 2

DPI_SUBSCR_PROTO_CALLBACK == 0
DPI_SUBSCR_PROTO_MAIL == 1
DPI_SUBSCR_PROTO_PLSQL == 2
DPI_SUBSCR_PROTO_HTTP == 3

DPI_SUBSCR_QOS_RELIABLE == 1
DPI_SUBSCR_QOS_DEREG_NFY == 2
DPI_SUBSCR_QOS_ROWIDS == 4
DPI_SUBSCR_QOS_QUERY == 8
DPI_SUBSCR_QOS_BEST_EFFORT == 16

DPI_EVENT_STARTUP == 1
DPI_EVENT_SHUTDOWN == 2
DPI_EVENT_SHUTDOWN_ANY == 3
DPI_EVENT_DEREG == 5
DPI_EVENT_OBJCHANGE == 6
DPI_EVENT_QUERYCHANGE == 7
DPI_EVENT_AQ == 100

\* --------------------------------------------------------------- durations

\* A u64 number of seconds is four 16-bit limbs, most significant first:
\* the model checker's integers are narrower than 64 bits.
Limb == 2^16

U64(a, b, c, d) == <<a, b, c, d>>

\* std::time::Duration: whole seconds and a sub-second part.
Duration(secs, nanos) == [secs |-> secs, nanos |-> nanos]

as_secs(dur) == dur.secs

Durations ==
    { Duration(U64(0, 0, 0, 0), 0),
      Duration(U64(0, 0, 0, 5), 500000000),
      Duration(U64(0, 0, Limb - 1, Limb - 1), 999999999),
      Duration(U64(0, 1, 0, 0), 0) }

\* A conversion that truncates (as u32) instead of failing.
TryIntoU32Lossy(x) == [ok |-> TRUE, v |-> <<x[3], x[4]>>]

\* u64 -> u32 of try_from::TryInto: the low 32 bits when the high 32 are zero,
\* an error otherwise.
TryIntoU32(x) ==
    IF x[1] = 0 /\ x[2] = 0
    THEN [ok |-> TRUE, v |-> <<x[3], x[4]>>]
    ELSE [ok |-> FALSE, v |-> <<0, 0>>]

\* --------------------------------------------------------------- protocols

Modules == {"cqn", "aq"}
Variants == {"Callback", "Mail", "PlSql", "Http"}

\* cqn::Protocol and aq::Protocol: the variant with its closure or recipient.
Protocols == [mod : Modules, variant : Variants]

Recipient(p) == "to_" \o p.variant

NoCallback == "None"
NoRecipient == ""

ProtoCode(variant) ==
    CASE variant = "Callback" -> DPI_SUBSCR_PROTO_CALLBACK
      [] variant = "Mail" -> DPI_SUBSCR_PROTO_MAIL
      [] variant = "PlSql" -> DPI_SUBSCR_PROTO_PLSQL
      [] variant = "Http" -> DPI_SUBSCR_PROTO_HTTP

NoGrouping == [set |-> FALSE, dur |-> Duration(U64(0, 0, 0, 0), 0)]
GroupingClass_Time(dur) == [set |-> TRUE, dur |-> dur]

\* Option<GroupingType>
NoGroupingType == "None"
GroupingTypes == {"Summary", "Last"}

\* SubscriptionForm::default().  st and origin are not fields of the struct:
\* st tells whether the value exists ("none"), is being built or was moved
\* into submit; origin remembers which Protocol implementation ran init_form.
FormDefault ==
    [ st |-> "none", origin |-> "",
      namespace |-> 0, protocol |-> 0,
      callback |-> NoCallback, recipient |-> NoRecipient,
      qos |-> 0, op_code |-> 0, port |-> 0,
      timeout |-> Duration(U64(0, 0, 0, 0), 0),
      name |-> "", ip_address |-> "",
      grouping_class |-> NoGrouping,
      grouping_type |-> NoGroupingType ]

\* The namespace each implementation of init_form writes.
cqn_namespace == DPI_SUBSCR_NAMESPACE_AQ
aq_namespace == DPI_SUBSCR_NAMESPACE_AQ

\* An init_form whose addressed arms set the protocol and drop the recipient.
init_form_NoRecipient(p, form) ==
    LET f1 == [form EXCEPT !.namespace = IF p.mod = "cqn" THEN cqn_namespace
                                          ELSE aq_namespace,
                           !.protocol = ProtoCode(p.variant)]
    IN  IF p.variant = "Callback"
        THEN [f1 EXCEPT !.callback = IF p.mod = "cqn" THEN "CQN" ELSE "AQ"]
        ELSE f1

\* impl super::Protocol for cqn::Protocol / aq::Protocol: init_form.
init_form(p, form) ==
    LET f1 == [form EXCEPT !.namespace = IF p.mod = "cqn" THEN cqn_namespace
                                          ELSE aq_namespace,
                           !.protocol = ProtoCode(p.variant)]
    IN  IF p.variant = "Callback"
        THEN [f1 EXCEPT !.callback = IF p.mod = "cqn" THEN "CQN" ELSE "AQ"]
        ELSE [f1 EXCEPT !.recipient = Recipient(p)]

\* ------------------------------------------------------------------- state

VARIABLES
    form,       \* form[i]: the i-th SubscriptionForm
    sub,        \* sub[i]: the Subscription made by submitting form i
    result,     \* result[i]: what submit of form i returned
    calls,      \* calls[i]: what each dpiConn_subscribe call of submit(i) returned
    req,        \* the request of the dpiConn_subscribe call in progress
    dlog,       \* dlog[i]: the operations Drop has run on sub[i], in order
    heap,       \* heap[a]: the Box<Callback> at address a
    reg,        \* reg[h]: the external system's registration with handle h
    cb,         \* cb[h]: the trampoline's activation for registration h
    delivered,  \* notifications the external system handed to the trampoline
    invoked,    \* closure calls the trampoline made
    dereg,      \* dereg[h]: the closure of registration h was given a Deregister event
    alive,      \* FALSE once the process was aborted or left in an undefined state
    app,        \* the form whose submit is inside dpiConn_subscribe, or 0
    overlap,    \* whether the application holds several subscriptions at once
    stmts,      \* the statement handles open in the external system
    query,      \* the last set_query call: its subscription, calls and result
    bits,       \* the dpiOpCode last decoded into an OpCode
    opcode,     \* the OpCode decoded from bits
    raw,        \* the change message last decoded with its tables and queries
    evt,        \* what cqn::Event::new made of raw
    cursor,     \* the scrollable cursor of tests/scrollable.rs
    yielded,    \* the rows its iteration has yielded, in order
    given       \* given[i]: the protocol form i was made of and the value
                \* last passed to each of its setters

\* The values decoded outside a subscription's lifecycle.
decoded == <<bits, opcode, raw, evt>>

\* The result set of the scrollable cursor test.
scroll == <<cursor, yielded>>

\* What the form builder, submit, Drop and the trampoline never touch.
aux == <<overlap, stmts, query, decoded, scroll>>

vars == <<form, sub, result, calls, req, dlog, heap, reg, cb, delivered,
          invoked, dereg, alive, app, aux, given>>

NoSub == [st |-> "none", handle |-> 0, callback |-> 0]
NoReq ==
    [ subscrNamespace |-> 0, protocol |-> 0, callback |-> FALSE,
      callbackContext |-> 0, recipientName |-> NoRecipient,
      qos |-> 0, operations |-> 0, portNumber |-> 0,
      timeout |-> <<0, 0>>, name |-> "", ipAddress |-> "",
      groupingClassTime |-> FALSE, groupingValue |-> <<0, 0>>,
      groupingType |-> "ctxt" ]
NoBox == [st |-> "unalloc", tag |-> NoCallback]
NoReg == [active |-> FALSE, callback |-> FALSE, context |-> 0]

NullMsg == [errorInfo |-> 0, eventType |-> 0, registered |-> 0,
            numTables |-> 0, tables |-> <<>>, numQueries |-> 0, queries |-> <<>>]
NoArg == [k |-> "None"]
Idle == [pc |-> "idle", msg |-> NullMsg, tag |-> NoCallback, context |-> 0,
         called |-> FALSE, arg |-> NoArg]
NoOpCode == [k |-> "none", bits |-> 0]
NoMode == [m |-> "None", n |-> 0]
NoCursor == [size |-> 0, pos |-> 0, lo |-> 0, buf |-> <<>>, row |-> 0,
             mode |-> NoMode, done |-> FALSE]
NoQuery == [sub |-> 0, calls |-> <<>>,
            result |-> [k |-> "none", id |-> 0, err |-> ""]]

\* An argument passed to New or to a setter, and the record of a form on
\* which none was passed yet.
Given(v) == [set |-> TRUE, v |-> v]
NotGiven ==
    [ protocol |-> [set |-> FALSE, v |-> [mod |-> "", variant |-> ""]],
      qos |-> [set |-> FALSE, v |-> 0],
      op_code |-> [set |-> FALSE, v |-> 0],
      port |-> [set |-> FALSE, v |-> 0],
      timeout |-> [set |-> FALSE, v |-> Duration(U64(0, 0, 0, 0), 0)],
      name |-> [set |-> FALSE, v |-> ""],
      ip_address |-> [set |-> FALSE, v |-> ""],
      grouping_class |-> [set |-> FALSE, v |-> NoGrouping],
      grouping_type |-> [set |-> FALSE, v |-> NoGroupingType] ]

Init ==
    /\ form = [i \in Ids |-> FormDefault]
    /\ sub = [i \in Ids |-> NoSub]
    /\ result = [i \in Ids |-> "none"]
    /\ calls = [i \in Ids |-> <<>>]
    /\ req = NoReq
    /\ dlog = [i \in Ids |-> <<>>]
    /\ heap = [a \in Ids |-> NoBox]
    /\ reg = [h \in Ids |-> NoReg]
    /\ cb = [h \in Ids |-> Idle]
    /\ delivered = 0
    /\ invoked = 0
    /\ dereg = [h \in Ids |-> FALSE]
    /\ alive = TRUE
    /\ app = 0
    /\ overlap = FALSE
    /\ stmts = {}
    /\ query = NoQuery
    /\ bits = 0
    /\ opcode = NoOpCode
    /\ raw = NullMsg
    /\ evt = NoArg
    /\ cursor = NoCursor
    /\ yielded = <<>>
    /\ given = [i \in Ids |-> NotGiven]

\* ------------------------------------------------------------ form builder

\* The application works on one subscription at a time, making the next
\* form when the subscription before was dropped, unless it holds several.
OneAtATime(j) == overlap \/ sub[j].st = "dropped"

\* SubscriptionForm::new(protocol).  Forms are numbered in the order the
\* application creates them.
New(i, p) ==
    /\ alive
    /\ app = 0
    /\ form[i].st = "none"
    /\ \A j \in DOMAIN sub : j < i => OneAtATime(j)
    /\ form' = [form EXCEPT ![i] =
                   [init_form(p, FormDefault) EXCEPT !.st = "built",
                                                     !.origin = p.mod]]
    /\ given' = [given EXCEPT ![i] = [NotGiven EXCEPT !.protocol = Given(p)]]
    /\ UNCHANGED <<sub, result, calls, req, dlog, heap, reg, cb, delivered,
                   invoked, alive, app, dereg, aux>>

\* SubscriptionForm::timeout(dur)
timeout(i, dur) ==
    /\ alive
    /\ app = 0
    /\ form[i].st = "built"
    /\ form' = [form EXCEPT ![i].timeout = dur]
    /\ given' = [given EXCEPT ![i].timeout = Given(dur)]
    /\ UNCHANGED <<sub, result, calls, req, dlog, heap, reg, cb, delivered,
                   invoked, alive, app, dereg, aux>>

\* SubscriptionForm::grouping_class(GroupingClass::Time(dur))
grouping_class(i, dur) ==
    /\ alive
    /\ app = 0
    /\ form[i].st = "built"
    /\ form' = [form EXCEPT ![i].grouping_class = GroupingClass_Time(dur)]
    /\ given' = [given EXCEPT ![i].grouping_class = Given(GroupingClass_Time(dur))]
    /\ UNCHANGED <<sub, result, calls, req, dlog, heap, reg, cb, delivered,
                   invoked, alive, app, dereg, aux>>

\* SubscriptionForm::qos(qos): the bits of a QOS value
qos(i, q) ==
    /\ alive
    /\ app = 0
    /\ form[i].st = "built"
    /\ form' = [form EXCEPT ![i].qos = q]
    /\ given' = [given EXCEPT ![i].qos = Given(q)]
    /\ UNCHANGED <<sub, result, calls, req, dlog, heap, reg, cb, delivered,
                   invoked, alive, app, dereg, aux>>

\* SubscriptionForm::op_code(op_code): the bits of an OpCode value
op_code(i, oc) ==
    /\ alive
    /\ app = 0
    /\ form[i].st = "built"
    /\ form' = [form EXCEPT ![i].op_code = oc]
    /\ given' = [given EXCEPT ![i].op_code = Given(oc)]
    /\ UNCHANGED <<sub, result, calls, req, dlog, heap, reg, cb, delivered,
                   invoked, alive, app, dereg, aux>>

\* SubscriptionForm::port(port)
port(i, n) ==
    /\ alive
    /\ app = 0
    /\ form[i].st = "built"
    /\ form' = [form EXCEPT ![i].port = n]
    /\ given' = [given EXCEPT ![i].port = Given(n)]
    /\ UNCHANGED <<sub, result, calls, req, dlog, heap, reg, cb, delivered,
                   invoked, alive, app, dereg, aux>>

\* SubscriptionForm::name(name)
name(i, str) ==
    /\ alive
    /\ app = 0
    /\ form[i].st = "built"
    /\ form' = [form EXCEPT ![i].name = str]
    /\ given' = [given EXCEPT ![i].name = Given(str)]
    /\ UNCHANGED <<sub, result, calls, req, dlog, heap, reg, cb, delivered,
                   invoked, alive, app, dereg, aux>>

\* An ip_address that stores the address in the name field.
ip_address_IntoName(i, addr) ==
    /\ alive
    /\ app = 0
    /\ form[i].st = "built"
    /\ form' = [form EXCEPT ![i].name = addr]
    /\ given' = [given EXCEPT ![i].ip_address = Given(addr)]
    /\ UNCHANGED <<sub, result, calls, req, dlog, heap, reg, cb, delivered,
                   invoked, alive, app, dereg, aux>>

\* SubscriptionForm::ip_address(addr)
ip_address(i, addr) ==
    /\ alive
    /\ app = 0
    /\ form[i].st = "built"
    /\ form' = [form EXCEPT ![i].ip_address = addr]
    /\ given' = [given EXCEPT ![i].ip_address = Given(addr)]
    /\ UNCHANGED <<sub, result, calls, req, dlog, heap, reg, cb, delivered,
                   invoked, alive, app, dereg, aux>>

\* SubscriptionForm::grouping_type(grouping_type): Some(grouping_type)
grouping_type(i, type_) ==
    /\ alive
    /\ app = 0
    /\ form[i].st = "built"
    /\ form' = [form EXCEPT ![i].grouping_type = type_]
    /\ given' = [given EXCEPT ![i].grouping_type = Given(type_)]
    /\ UNCHANGED <<sub, result, calls, req, dlog, heap, reg, cb, delivered,
                   invoked, alive, app, dereg, aux>>

\* ------------------------------------------------------------------ submit

\* params.groupingType: what the connection's subscr_create_params hold
\* ("ctxt") unless the form has a grouping type.
dpiGroupingType(type_) ==
    CASE type_ = "Summary" -> "DPI_SUBSCR_GROUPING_TYPE_SUMMARY"
      [] type_ = "Last" -> "DPI_SUBSCR_GROUPING_TYPE_LAST"
      [] OTHER -> "ctxt"

\* The registration request submit fills in, or the
\* failure of one of its two conversions.  ctx is the address of the boxed
\* callback, 0 when the form holds none.
SubmitParams(f, ctx) ==
    LET t == TryIntoU32(as_secs(f.timeout))
        g == IF f.grouping_class.set
             THEN TryIntoU32(as_secs(f.grouping_class.dur))
             ELSE [ok |-> TRUE, v |-> <<0, 0>>]
    IN  [ ok |-> t.ok /\ g.ok,
          params |->
            [ subscrNamespace |-> f.namespace,
              protocol |-> f.protocol,
              callback |-> ctx # 0,
              callbackContext |-> ctx,
              recipientName |-> f.recipient,
              qos |-> f.qos,
              operations |-> f.op_code,
              portNumber |-> f.port,
              timeout |-> t.v,
              name |-> f.name,
              ipAddress |-> f.ip_address,
              groupingClassTime |-> f.grouping_class.set,
              groupingValue |-> g.v,
              groupingType |-> dpiGroupingType(f.grouping_type) ] ]

\* ---------------------------------------------------- Drop for Subscription

\* A Drop that frees the box before it releases the handle.
DropStepsFreeFirst(s) ==
    (IF s.callback # 0 THEN <<[op |-> "free", arg |-> s.callback]>> ELSE <<>>)
    \o <<[op |-> "release", arg |-> s.handle]>>

\* A Drop that reclaims the box twice.
DropStepsFreeTwice(s) ==
    <<[op |-> "release", arg |-> s.handle]>>
    \o (IF s.callback # 0
        THEN <<[op |-> "free", arg |-> s.callback],
               [op |-> "free", arg |-> s.callback]>>
        ELSE <<>>)

\* The operations of Drop::drop in program order: dpiSubscr_release on the
\* handle, then Box::from_raw on the callback when it is not null.
DropSteps(s) ==
    <<[op |-> "release", arg |-> s.handle]>>
    \o (IF s.callback # 0 THEN <<[op |-> "free", arg |-> s.callback]>> ELSE <<>>)

\* dpiSubscr_release revokes the registration of a valid handle unless the
\* external call fails; on a null handle it can only fail.
ReleaseOk(step, ok) == step.op = "free" \/ (ok /\ step.arg # 0)

ExecReg(rg, step, ok) ==
    IF step.op = "release" /\ ReleaseOk(step, ok)
    THEN [rg EXCEPT ![step.arg].active = FALSE]
    ELSE rg

\* Box::from_raw(p) dropped: the box at p is freed; freeing it again is a
\* double free.
ExecHeap(hp, step) ==
    IF step.op = "free"
    THEN [hp EXCEPT ![step.arg].st = IF @ = "live" THEN "freed" ELSE "doublefree"]
    ELSE hp

LogEntry(step, ok) == [op |-> step.op, arg |-> step.arg, ok |-> ReleaseOk(step, ok)]

RECURSIVE RunHeap(_, _)
RunHeap(hp, steps) ==
    IF steps = <<>> THEN hp
    ELSE RunHeap(ExecHeap(hp, Head(steps)), Tail(steps))

\* An early return that forgets the local subscr.
EarlyReturnLeak(subscr) == <<>>

\* What runs when submit returns early: the local subscr goes out of scope
\* and its Drop runs.
EarlyReturn(subscr) == DropSteps(subscr)

\* A submit that keeps its callback in one shared slot.
NextBoxShared == CHOOSE a \in DOMAIN heap : \A b \in DOMAIN heap : a <= b

\* Box::new gives a box no other value holds; dpiConn_subscribe gives a
\* handle of its own to each registration.
NextBox == Cardinality({a \in DOMAIN heap : heap[a].st # "unalloc"}) + 1
NextHandle == Cardinality({j \in DOMAIN sub : sub[j].handle # 0}) + 1

\* A submit that borrows the form (&mut self) and leaves it as it was.
ConsumeByRef(f) == f

\* submit takes the form by value (self): it is moved into the call and no
\* longer exists for the caller.
Consume(f) == [FormDefault EXCEPT !.st = "consumed"]

\* SubscriptionForm::submit(self, conn) up to its call of dpiConn_subscribe:
\* the callback is boxed, the request is filled in, and either a conversion
\* fails (submit returns the error, the local subscr is dropped) or the
\* external call is entered with the request.
submit(i) ==
    /\ alive
    /\ app = 0
    /\ form[i].st = "built"
    /\ LET f == form[i]
           boxed == f.callback # NoCallback
           a == NextBox
           subscr == [st |-> "submitting", handle |-> 0,
                      callback |-> IF boxed THEN a ELSE 0]
           heap1 == IF boxed
                    THEN [heap EXCEPT ![a] = [st |-> "live", tag |-> f.callback]]
                    ELSE heap
           pr == SubmitParams(f, subscr.callback)
           steps == EarlyReturn(subscr)
       IN  /\ form' = [form EXCEPT ![i] = Consume(f)]
           /\ given' = [given EXCEPT ![i] = NotGiven]
           /\ IF ~pr.ok
              THEN /\ result' = [result EXCEPT ![i] = "ConversionError"]
                   /\ sub' = [sub EXCEPT ![i] = [subscr EXCEPT !.st = "dropped"]]
                   /\ dlog' = [dlog EXCEPT ![i] =
                                 [k \in 1..Len(steps) |-> LogEntry(steps[k], FALSE)]]
                   /\ heap' = RunHeap(heap1, steps)
                   /\ UNCHANGED <<calls, req, app>>
              ELSE /\ calls' = [calls EXCEPT ![i] = Append(@, "pending")]
                   /\ req' = pr.params
                   /\ app' = i
                   /\ sub' = [sub EXCEPT ![i] = subscr]
                   /\ heap' = heap1
                   /\ UNCHANGED <<result, dlog>>
    /\ UNCHANGED <<reg, cb, delivered, invoked, alive, dereg, aux>>

\* dpiConn_subscribe returns and submit ends: Ok(subscr) with the handle the
\* external system made, or the external error, the local subscr dropped.
\* The request is a local of submit and is gone when it returns.
subscribe_returns(i, extOk) ==
    /\ alive
    /\ app = i
    /\ LET h == NextHandle
           steps == EarlyReturn(sub[i])
       IN  IF extOk
           THEN /\ result' = [result EXCEPT ![i] = "Ok"]
                /\ sub' = [sub EXCEPT ![i] = [@ EXCEPT !.st = "live", !.handle = h]]
                /\ reg' = [reg EXCEPT ![h] =
                             [active |-> TRUE, callback |-> req.callback,
                              context |-> req.callbackContext]]
                /\ UNCHANGED <<dlog, heap>>
           ELSE /\ result' = [result EXCEPT ![i] = "ExternalError"]
                /\ sub' = [sub EXCEPT ![i].st = "dropped"]
                /\ dlog' = [dlog EXCEPT ![i] =
                              [k \in 1..Len(steps) |-> LogEntry(steps[k], FALSE)]]
                /\ heap' = RunHeap(heap, steps)
                /\ UNCHANGED reg
    /\ calls' = [calls EXCEPT ![i][Len(calls[i])] =
                    IF extOk THEN "DPI_SUCCESS" ELSE "DPI_FAILURE"]
    /\ req' = NoReq
    /\ app' = 0
    /\ UNCHANGED <<form, cb, delivered, invoked, alive, dereg, aux, given>>

\* One operation of Drop::drop on a Subscription that submit returned.  The
\* value is dropped once, when its owner lets go of it; the delivery thread
\* runs between the operations.  ok: whether dpiSubscr_release succeeds.
drop(i, ok) ==
    /\ alive
    /\ app = 0
    /\ sub[i].st \in {"live", "dropping"}
    /\ LET steps == DropSteps(sub[i])
           k == Len(dlog[i]) + 1
           step == steps[k]
       IN  /\ step.op = "free" => ok
           /\ dlog' = [dlog EXCEPT ![i] = Append(@, LogEntry(step, ok))]
           /\ reg' = ExecReg(reg, step, ok)
           /\ heap' = ExecHeap(heap, step)
           /\ sub' = [sub EXCEPT ![i].st =
                        IF k = Len(steps) THEN "dropped" ELSE "dropping"]
    /\ UNCHANGED <<form, result, calls, req, cb, delivered, invoked, alive, app,
                   dereg, aux, given>>

\* --------------------------------------------------------------- set_query

\* Identifiers dpiStmt_getSubscrQueryId may report.
MaxQueryId == 2
QueryIds == 1..MaxQueryId

\* One call of the external system made by set_query: the statement handle
\* it is about, whether it succeeded, and the identifier it reported.
ExtCall(op, handle, ok, out) == [op |-> op, handle |-> handle, ok |-> ok, out |-> out]

QueryOk(id) == [k |-> "Ok", id |-> id, err |-> ""]
QueryErr(op) == [k |-> "Err", id |-> 0, err |-> op]

\* A set_query that returns the execute failure without releasing the
\* statement handle.
set_query_body_ExecLeak(h, prepOk, execOk, idOk, qid) ==
    IF ~prepOk
    THEN [ calls |-> <<ExtCall("dpiSubscr_prepareStmt", 0, FALSE, 0)>>,
           result |-> QueryErr("dpiSubscr_prepareStmt") ]
    ELSE IF ~execOk
    THEN [ calls |-> <<ExtCall("dpiSubscr_prepareStmt", h, TRUE, 0),
                       ExtCall("dpiStmt_execute", h, FALSE, 0)>>,
           result |-> QueryErr("dpiStmt_execute") ]
    ELSE IF ~idOk
    THEN [ calls |-> <<ExtCall("dpiSubscr_prepareStmt", h, TRUE, 0),
                       ExtCall("dpiStmt_execute", h, TRUE, 0),
                       ExtCall("dpiStmt_getSubscrQueryId", h, FALSE, 0),
                       ExtCall("dpiStmt_release", h, TRUE, 0)>>,
           result |-> QueryErr("dpiStmt_getSubscrQueryId") ]
    ELSE [ calls |-> <<ExtCall("dpiSubscr_prepareStmt", h, TRUE, 0),
                       ExtCall("dpiStmt_execute", h, TRUE, 0),
                       ExtCall("dpiStmt_getSubscrQueryId", h, TRUE, qid),
                       ExtCall("dpiStmt_release", h, TRUE, 0)>>,
           result |-> QueryOk(qid) ]

\* A set_query that does not look at the result of dpiStmt_execute.
set_query_body_ExecUnchecked(h, prepOk, execOk, idOk, qid) ==
    IF ~prepOk
    THEN [ calls |-> <<ExtCall("dpiSubscr_prepareStmt", 0, FALSE, 0)>>,
           result |-> QueryErr("dpiSubscr_prepareStmt") ]
    ELSE IF ~idOk
    THEN [ calls |-> <<ExtCall("dpiSubscr_prepareStmt", h, TRUE, 0),
                       ExtCall("dpiStmt_execute", h, execOk, 0),
                       ExtCall("dpiStmt_getSubscrQueryId", h, FALSE, 0),
                       ExtCall("dpiStmt_release", h, TRUE, 0)>>,
           result |-> QueryErr("dpiStmt_getSubscrQueryId") ]
    ELSE [ calls |-> <<ExtCall("dpiSubscr_prepareStmt", h, TRUE, 0),
                       ExtCall("dpiStmt_execute", h, execOk, 0),
                       ExtCall("dpiStmt_getSubscrQueryId", h, TRUE, qid),
                       ExtCall("dpiStmt_release", h, TRUE, 0)>>,
           result |-> QueryOk(qid) ]

\* A set_query whose cleanup after a failed dpiStmt_getSubscrQueryId does
\* not return: it releases the statement there and again at the end.
set_query_body_ReleaseTwice(h, prepOk, execOk, idOk, qid) ==
    IF ~prepOk
    THEN [ calls |-> <<ExtCall("dpiSubscr_prepareStmt", 0, FALSE, 0)>>,
           result |-> QueryErr("dpiSubscr_prepareStmt") ]
    ELSE IF ~execOk
    THEN [ calls |-> <<ExtCall("dpiSubscr_prepareStmt", h, TRUE, 0),
                       ExtCall("dpiStmt_execute", h, FALSE, 0),
                       ExtCall("dpiStmt_release", h, TRUE, 0)>>,
           result |-> QueryErr("dpiStmt_execute") ]
    ELSE IF ~idOk
    THEN [ calls |-> <<ExtCall("dpiSubscr_prepareStmt", h, TRUE, 0),
                       ExtCall("dpiStmt_execute", h, TRUE, 0),
                       ExtCall("dpiStmt_getSubscrQueryId", h, FALSE, 0),
                       ExtCall("dpiStmt_release", h, TRUE, 0),
                       ExtCall("dpiStmt_release", h, TRUE, 0)>>,
           result |-> QueryErr("dpiStmt_getSubscrQueryId") ]
    ELSE [ calls |-> <<ExtCall("dpiSubscr_prepareStmt", h, TRUE, 0),
                       ExtCall("dpiStmt_execute", h, TRUE, 0),
                       ExtCall("dpiStmt_getSubscrQueryId", h, TRUE, qid),
                       ExtCall("dpiStmt_release", h, TRUE, 0)>>,
           result |-> QueryOk(qid) ]

\* The body of Subscription::set_query: the external calls it makes, in
\* order, and what it returns.  h is the statement handle
\* dpiSubscr_prepareStmt gives when it succeeds; prepOk, execOk and idOk
\* tell which external calls succeed and qid is the identifier
\* dpiStmt_getSubscrQueryId reports.  Each chkerr! returns at a failure,
\* after its cleanup block; a failed prepare leaves the handle null.
set_query_body(h, prepOk, execOk, idOk, qid) ==
    IF ~prepOk
    THEN [ calls |-> <<ExtCall("dpiSubscr_prepareStmt", 0, FALSE, 0)>>,
           result |-> QueryErr("dpiSubscr_prepareStmt") ]
    ELSE IF ~execOk
    THEN [ calls |-> <<ExtCall("dpiSubscr_prepareStmt", h, TRUE, 0),
                       ExtCall("dpiStmt_execute", h, FALSE, 0),
                       ExtCall("dpiStmt_release", h, TRUE, 0)>>,
           result |-> QueryErr("dpiStmt_execute") ]
    ELSE IF ~idOk
    THEN [ calls |-> <<ExtCall("dpiSubscr_prepareStmt", h, TRUE, 0),
                       ExtCall("dpiStmt_execute", h, TRUE, 0),
                       ExtCall("dpiStmt_getSubscrQueryId", h, FALSE, 0),
                       ExtCall("dpiStmt_release", h, TRUE, 0)>>,
           result |-> QueryErr("dpiStmt_getSubscrQueryId") ]
    ELSE [ calls |-> <<ExtCall("dpiSubscr_prepareStmt", h, TRUE, 0),
                       ExtCall("dpiStmt_execute", h, TRUE, 0),
                       ExtCall("dpiStmt_getSubscrQueryId", h, TRUE, qid),
                       ExtCall("dpiStmt_release", h, TRUE, 0)>>,
           result |-> QueryOk(qid) ]

\* The external system's statement handles after one call: a successful
\* dpiSubscr_prepareStmt opens its handle, dpiStmt_release closes it.
ExecStmt(open, c) ==
    IF c.op = "dpiSubscr_prepareStmt" /\ c.ok THEN open \cup {c.handle}
    ELSE IF c.op = "dpiStmt_release" THEN open \ {c.handle}
    ELSE open

RECURSIVE RunStmts(_, _)
RunStmts(open, cs) ==
    IF cs = <<>> THEN open
    ELSE RunStmts(ExecStmt(open, Head(cs)), Tail(cs))

\* The handle the external system gives the next prepared statement: one
\* that is not open.
NextStmt == CHOOSE h \in 1..(Cardinality(stmts) + 1) : h \notin stmts

\* A set_query that takes the Subscription by value (self): the value is
\* dropped when the call returns.
set_query_ByValue(i, prepOk, execOk, idOk, qid) ==
    /\ alive
    /\ app = 0
    /\ sub[i].st = "live"
    /\ LET run == set_query_body(NextStmt, prepOk, execOk, idOk, qid)
           steps == DropSteps(sub[i])
       IN  /\ stmts' = RunStmts(stmts, run.calls)
           /\ query' = [sub |-> i, calls |-> run.calls, result |-> run.result]
           /\ sub' = [sub EXCEPT ![i].st = "dropped"]
           /\ dlog' = [dlog EXCEPT ![i] =
                         [k \in 1..Len(steps) |-> LogEntry(steps[k], TRUE)]]
           /\ reg' = [reg EXCEPT ![sub[i].handle].active = FALSE]
           /\ heap' = RunHeap(heap, steps)
    /\ UNCHANGED <<form, result, calls, req, cb, delivered, invoked, dereg,
                   alive, app, given, overlap, decoded, scroll>>

\* Subscription::set_query(&mut self, sql) on a Subscription that submit
\* returned and that was not dropped, any number of times.
set_query(i, prepOk, execOk, idOk, qid) ==
    /\ alive
    /\ app = 0
    /\ sub[i].st = "live"
    /\ LET run == set_query_body(NextStmt, prepOk, execOk, idOk, qid)
       IN  /\ stmts' = RunStmts(stmts, run.calls)
           /\ query' = [sub |-> i, calls |-> run.calls, result |-> run.result]
    /\ UNCHANGED <<form, sub, result, calls, req, dlog, heap, reg, cb,
                   delivered, invoked, dereg, alive, app, given, overlap, decoded,
                   scroll>>

\* ------------------------------------------------------------------ OpCode

DPI_OPCODE_ALL_OPS == 0
DPI_OPCODE_ALL_ROWS == 1
DPI_OPCODE_INSERT == 2
DPI_OPCODE_UPDATE == 4
DPI_OPCODE_DELETE == 8
DPI_OPCODE_ALTER == 16
DPI_OPCODE_DROP == 32
DPI_OPCODE_UNKNOWN == 64

\* The constants of bitflags! OpCode, in the order of their declaration.
OpCodeFlags ==
    << DPI_OPCODE_ALL_OPS, DPI_OPCODE_ALL_ROWS, DPI_OPCODE_INSERT,
       DPI_OPCODE_UPDATE, DPI_OPCODE_DELETE, DPI_OPCODE_ALTER,
       DPI_OPCODE_DROP, DPI_OPCODE_UNKNOWN >>

\* Bitwise and, or of two unsigned integers.
RECURSIVE BitAnd(_, _)
BitAnd(a, b) ==
    IF a = 0 \/ b = 0 THEN 0
    ELSE (a % 2) * (b % 2) + 2 * BitAnd(a \div 2, b \div 2)

RECURSIVE BitOr(_, _)
BitOr(a, b) ==
    IF a = 0 THEN b
    ELSE IF b = 0 THEN a
    ELSE (IF a % 2 = 1 \/ b % 2 = 1 THEN 1 ELSE 0) + 2 * BitOr(a \div 2, b \div 2)

\* OpCode::all().bits: the union of the declared constants.
RECURSIVE OrAll(_)
OrAll(fs) == IF fs = <<>> THEN 0 ELSE BitOr(Head(fs), OrAll(Tail(fs)))

OpCode_all == OrAll(OpCodeFlags)

\* OpCode::from_bits: None when a bit outside the declared constants is set.
from_bits(b) ==
    IF BitAnd(b, OpCode_all) = b
    THEN [k |-> "Some", bits |-> b]
    ELSE [k |-> "None", bits |-> 0]

\* OpCode::from_bits_truncate: the bits of the declared constants are kept,
\* the others dropped.
from_bits_truncate(b) == [k |-> "Some", bits |-> BitAnd(b, OpCode_all)]

\* The dpiOpCode values decoded: every pattern of the low MaxOpBits bits.
MaxOpBits == 8
OpBits == 0..(2^MaxOpBits - 1)

\* An operation code of a message is decoded (Row::from_dpi, Table::from_dpi,
\* Query::from_dpi).
OpCode_decode(b) ==
    /\ bits' = b
    /\ opcode' = from_bits_truncate(b)
    /\ UNCHANGED <<raw, evt>>
    /\ UNCHANGED <<form, sub, result, calls, req, dlog, heap, reg, cb,
                   delivered, invoked, dereg, alive, app, given, overlap, stmts,
                   query, scroll>>

\* ---------------------------------------------------------------- decoding

NoEvent == [module |-> "", event_type |-> "", registered |-> FALSE]

\* to_cow_str(ptr, len): the first len bytes at ptr.
to_cow_str(ptr, len) == SubSeq(ptr, 1, len)

\* cqn::Row::from_dpi
Row_from_dpi(row) ==
    [ operation |-> from_bits_truncate(row.operation),
      rowid |-> to_cow_str(row.rowid, row.rowidLength) ]

\* cqn::Table::from_dpi: the rows at offsets 0 .. numRows - 1.
Table_from_dpi(table) ==
    [ operation |-> from_bits_truncate(table.operation),
      name |-> to_cow_str(table.name, table.nameLength),
      rows |-> [i \in 1..table.numRows |-> Row_from_dpi(table.rows[i])] ]

\* A loop over 0 ..= num, one element too many.
dpi_to_tables_Inclusive(tables, num) ==
    [i \in 1..(num + 1) |-> Table_from_dpi(tables[i])]

\* dpi_to_tables(tables, num): the tables at offsets 0 .. num - 1, in order.
dpi_to_tables(tables, num) ==
    [i \in 1..num |-> Table_from_dpi(tables[i])]

\* cqn::Query::from_dpi
Query_from_dpi(q) ==
    [ id |-> q.id,
      operation |-> from_bits_truncate(q.operation),
      tables |-> [i \in 1..q.numTables |-> Table_from_dpi(q.tables[i])] ]

\* dpi_to_queries(queries, num)
dpi_to_queries(queries, num) ==
    [i \in 1..num |-> Query_from_dpi(queries[i])]

\* The cqn::Event built from a message whose event type was decoded to t.
cqn_Event(msg, t) ==
    [ module |-> "cqn", event_type |-> t,
      tables |-> dpi_to_tables(msg.tables, msg.numTables),
      queries |-> dpi_to_queries(msg.queries, msg.numQueries),
      registered |-> msg.registered # 0 ]
NoError == [kind |-> "", code |-> 0]

Ok(ev) == [k |-> "Ok", ev |-> ev, err |-> NoError]
Err(e) == [k |-> "Err", ev |-> NoEvent, err |-> e]
\* A panic raised while the value was computed (Result::unwrap on an Err).
Panic == [k |-> "Panic", ev |-> NoEvent, err |-> NoError]

\* Error::InternalError("Unsupported subscription event type {val}")
UnsupportedEventType(val) == [kind |-> "InternalError", code |-> val]

\* error_from_dpi_error(&*msg.errorInfo): the error the message embeds.
error_from_dpi_error(info) == [kind |-> "DpiError", code |-> info]

\* cqn::EventType::from_dpi
cqn_EventType_from_dpi(val) ==
    CASE val = DPI_EVENT_OBJCHANGE -> [k |-> "Ok", v |-> "ObjectChange"]
      [] val = DPI_EVENT_QUERYCHANGE -> [k |-> "Ok", v |-> "QueryResultChange"]
      [] val = DPI_EVENT_STARTUP -> [k |-> "Ok", v |-> "Startup"]
      [] val = DPI_EVENT_SHUTDOWN -> [k |-> "Ok", v |-> "Shutdown"]
      [] val = DPI_EVENT_SHUTDOWN_ANY -> [k |-> "Ok", v |-> "ShutdownAny"]
      [] val = DPI_EVENT_DEREG -> [k |-> "Ok", v |-> "Deregister"]
      [] OTHER -> [k |-> "Err", v |-> ""]

\* A decoder that takes every code it knows for a message arrival.
aq_EventType_from_dpi_AllAQ(val) ==
    CASE val = DPI_EVENT_AQ -> [k |-> "Ok", v |-> "AQ"]
      [] val = DPI_EVENT_DEREG -> [k |-> "Ok", v |-> "AQ"]
      [] OTHER -> [k |-> "Err", v |-> ""]

\* aq::EventType::from_dpi
aq_EventType_from_dpi(val) ==
    CASE val = DPI_EVENT_AQ -> [k |-> "Ok", v |-> "AQ"]
      [] val = DPI_EVENT_DEREG -> [k |-> "Ok", v |-> "Deregister"]
      [] OTHER -> [k |-> "Err", v |-> ""]

\* cqn::Event::new with the event type decoded before the error check.
cqn_Event_new_TypeFirst(msg) ==
    LET t == cqn_EventType_from_dpi(msg.eventType)
    IN  IF t.k # "Ok" THEN Panic
        ELSE IF msg.errorInfo = 0
        THEN Ok(cqn_Event(msg, t.v))
        ELSE Err(error_from_dpi_error(msg.errorInfo))

\* cqn::Event::new: from_dpi(..).unwrap() panics on an unknown event type.
cqn_Event_new(msg) ==
    IF msg.errorInfo = 0
    THEN LET t == cqn_EventType_from_dpi(msg.eventType)
         IN  IF t.k = "Ok"
             THEN Ok(cqn_Event(msg, t.v))
             ELSE Panic
    ELSE Err(error_from_dpi_error(msg.errorInfo))

\* aq::Event::new
aq_Event_new(msg) ==
    IF msg.errorInfo = 0
    THEN LET t == aq_EventType_from_dpi(msg.eventType)
         IN  IF t.k = "Ok"
             THEN Ok([module |-> "aq", event_type |-> t.v,
                      registered |-> msg.registered # 0])
             ELSE Panic
    ELSE Err(error_from_dpi_error(msg.errorInfo))

\* ------------------------------------------------- change messages decoded

\* The largest count of tables, rows or queries a message states.  The
\* memory its pointer refers to holds one element more than that.
MaxCount == 2
Cap == MaxCount + 1

\* Operation codes found in messages, some with a bit of no declared flag.
OpSamples ==
    << DPI_OPCODE_INSERT,
       DPI_OPCODE_UPDATE + 2 * DPI_OPCODE_UNKNOWN,
       DPI_OPCODE_DELETE + DPI_OPCODE_ALL_ROWS,
       DPI_OPCODE_ALL_OPS >>
OpAt(n) == OpSamples[(n % Len(OpSamples)) + 1]

\* The bytes after a string's length, which are not part of it.
Pad == 255

\* dpiSubscrMessageRow number k of table t.
RawRow(t, k, s) ==
    [ operation |-> OpAt(t + k + s),
      rowid |-> <<2, t, k, Pad>>, rowidLength |-> 3 ]

\* dpiSubscrMessageTable number t with numRows stated rows.
RawTable(t, numRows, s) ==
    [ operation |-> OpAt(t + s),
      name |-> <<1, t, Pad>>, nameLength |-> 2,
      numRows |-> numRows,
      rows |-> [k \in 1..Cap |-> RawRow(t, k, s)] ]

\* dpiSubscrMessageQuery number q; its tables are numbered after q.
RawQuery(q, numTables, nr, s) ==
    [ id |-> 100 * q + s,
      operation |-> OpAt(q + s + 1),
      numTables |-> numTables,
      tables |-> [j \in 1..Cap |-> RawTable(10 * q + j, nr[j], s)] ]

\* dpiSubscrMessage of a change notification.
RawMessage(e, ty, nt, nr, nq, qnt, s) ==
    [ errorInfo |-> e, eventType |-> ty, registered |-> s,
      numTables |-> nt,
      tables |-> [t \in 1..Cap |-> RawTable(t, nr[t], s)],
      numQueries |-> nq,
      queries |-> [q \in 1..Cap |-> RawQuery(q, qnt, nr, s)] ]

\* The numbers of rows of the tables of an array: r1 for the tables at odd
\* places and r2 for those at even places.
RowCounts(r1, r2) == [t \in 1..Cap |-> IF t % 2 = 1 THEN r1 ELSE r2]

RawMessages ==
    { RawMessage(e, ty, nt, RowCounts(r1, r2), nq, qnt, s) :
        e \in 0..MaxErrInfo,
        ty \in {DPI_EVENT_OBJCHANGE, DPI_EVENT_QUERYCHANGE},
        nt \in 0..MaxCount, r1 \in 0..MaxCount, r2 \in 0..MaxCount,
        nq \in 0..MaxCount, qnt \in 0..MaxCount, s \in 0..1 }

\* cqn::Event::new(&*msg) on a change message with tables and queries.  The
\* result depends on msg alone, and one message is decoded.
decode(msg) ==
    /\ evt = NoArg
    /\ raw' = msg
    /\ evt' = cqn_Event_new(msg)
    /\ UNCHANGED <<bits, opcode>>
    /\ UNCHANGED <<form, sub, result, calls, req, dlog, heap, reg, cb,
                   delivered, invoked, dereg, alive, app, given, overlap, stmts,
                   query, scroll>>

\* ------------------------------------------------------------- trampoline

\* dpiEventType values a message may carry: the codes the decoders name and
\* codes that none of them names (0 and 4).
EventCodes == (0..DPI_EVENT_QUERYCHANGE) \cup {DPI_EVENT_AQ}

\* dpiSubscrMessage: the fields the decoders read.  errorInfo 0 is null.
\* The messages delivered to the trampoline here carry no table and no query
\* and are of a registration that stays (registered is 1); RawMessages has
\* the others.
Messages ==
    [ errorInfo : 0..MaxErrInfo, eventType : EventCodes, registered : {1},
      numTables : {0}, tables : {<<>>}, numQueries : {0}, queries : {<<>>} ]

\* The tag callback_wrapper reads through the context pointer.  Reading a
\* freed box is undefined: either tag may be found there.
TagsAt(ctx) ==
    IF heap[ctx].st = "live" THEN {heap[ctx].tag} ELSE {"CQN", "AQ"}

\* A panic that leaves callback_wrapper, an extern "C" function, is
\* undefined: it unwinds into the caller's frames or aborts the process.
\* Nothing is known of the process after either, and the model stops there.
UnwindOutcomes == {"unwound", "aborted"}

\* The registration after the external system delivered msg for it: a
\* Deregister notification is the last one of a registration.
Delivered(rg, msg) ==
    IF msg.eventType = DPI_EVENT_DEREG THEN [rg EXCEPT !.active = FALSE] ELSE rg

\* Whether the closure is given a Deregister event.
IsDeregister(event) == event.k = "Ok" /\ event.ev.event_type = "Deregister"

\* A trampoline that calls the closure a second time with the same event.
closure_calls_Twice(event) == IF event.k = "Panic" THEN 0 ELSE 2

\* The closure calls callback_wrapper makes for one message: one, with the
\* decoded event or error, unless the decoding panicked.
closure_calls(event) == IF event.k = "Panic" THEN 0 ELSE 1

\* callback_wrapper(context, msg) up to the call of the closure: the
\* external system calls it for an active registration that has a callback.
callback_wrapper(h, msg) ==
    /\ alive
    /\ reg[h].active /\ reg[h].callback
    /\ cb[h].pc = "idle"
    /\ delivered < MaxDeliveries
    /\ delivered' = delivered + 1
    /\ reg' = [reg EXCEPT ![h] = Delivered(@, msg)]
    /\ \E tag \in TagsAt(reg[h].context) :
         LET event == IF tag = "CQN" THEN cqn_Event_new(msg)
                      ELSE aq_Event_new(msg)
             act == [pc |-> "running", msg |-> msg, tag |-> tag,
                     context |-> reg[h].context, called |-> TRUE,
                     arg |-> event]
         IN  /\ invoked' = invoked + closure_calls(event)
             /\ dereg' = [dereg EXCEPT ![h] = @ \/ IsDeregister(event)]
             /\ IF event.k = "Panic"
                THEN \E out \in UnwindOutcomes :
                       /\ cb' = [cb EXCEPT ![h] =
                                   [act EXCEPT !.pc = out, !.called = FALSE]]
                       /\ alive' = FALSE
                ELSE /\ cb' = [cb EXCEPT ![h] = act]
                     /\ UNCHANGED alive
    /\ UNCHANGED <<form, sub, result, calls, req, dlog, heap, app, aux, given>>

\* The closure's call ends: it returns and so does callback_wrapper, or it
\* panics and the panic leaves callback_wrapper; a closure whose box was
\* freed meanwhile may also crash the process.
ReturnOutcomes(h) ==
    {"returned"} \cup UnwindOutcomes
    \cup (IF heap[cb[h].context].st = "live" THEN {} ELSE {"crashed"})

closure_ends(h, out) ==
    /\ alive
    /\ cb[h].pc = "running"
    /\ out \in ReturnOutcomes(h)
    /\ cb' = [cb EXCEPT ![h] = IF out = "returned" THEN Idle
                                ELSE [@ EXCEPT !.pc = out]]
    /\ alive' = (out = "returned")
    /\ UNCHANGED <<form, sub, result, calls, req, dlog, heap, reg, delivered,
                   invoked, app, dereg, aux, given>>

\* -------------------------------------------------------- scrollable cursor

\* The rows of "select IntCol from TestStrings order by IntCol": IntCol is
\* 1 .. 10 in order.
NumRows == 10
Rows == [k \in 1..NumRows |-> k]

\* StmtParam::FetchArraySize: sizes below, at and above the number of rows.
FetchArraySizes == 1..(NumRows + 1)

\* FetchMode values.  n is the argument of Absolute and Relative.
Mode(m, n) == [m |-> m, n |-> n]
Modes ==
    {Mode(m, 0) : m \in {"Next", "Prior", "First", "Last"}}
    \cup {Mode("Absolute", n) : n \in 1..NumRows}
    \cup {Mode("Relative", k) : k \in {-2, -1, 3}}

\* A cursor that takes Relative(k) from the first row.
TargetFromFirst(mode, pos) ==
    CASE mode.m = "Next" -> pos + 1
      [] mode.m = "Prior" -> pos - 1
      [] mode.m = "First" -> 1
      [] mode.m = "Last" -> NumRows
      [] mode.m = "Absolute" -> mode.n
      [] mode.m = "Relative" -> 1 + mode.n

\* The position a fetch mode designates from the current position pos.
Target(mode, pos) ==
    CASE mode.m = "Next" -> pos + 1
      [] mode.m = "Prior" -> pos - 1
      [] mode.m = "First" -> 1
      [] mode.m = "Last" -> NumRows
      [] mode.m = "Absolute" -> mode.n
      [] mode.m = "Relative" -> pos + mode.n

\* A cursor that gets whole arrays only and finds no rows in a last,
\* shorter one.
RefillWhole(target, size) ==
    IF target + size - 1 <= NumRows
    THEN [lo |-> target, buf |-> SubSeq(Rows, target, target + size - 1)]
    ELSE [lo |-> target, buf |-> <<>>]

\* The fetch array filled from the row at target on: size rows, or those
\* that are left.
Refill(target, size) ==
    [ lo |-> target,
      buf |-> SubSeq(Rows, target,
                     IF target + size - 1 <= NumRows THEN target + size - 1
                     ELSE NumRows) ]

\* The cursor after it moved to target: the row comes out of the fetch
\* array, which is filled again when target is outside it.
MoveTo(c, mode, target) ==
    LET hit == c.lo # 0 /\ target >= c.lo /\ target < c.lo + Len(c.buf)
        w == IF hit THEN [lo |-> c.lo, buf |-> c.buf] ELSE Refill(target, c.size)
    IN  IF target - w.lo + 1 \in DOMAIN w.buf
        THEN [c EXCEPT !.pos = target, !.lo = w.lo, !.buf = w.buf,
                       !.row = w.buf[target - w.lo + 1], !.mode = mode]
        ELSE [c EXCEPT !.lo = w.lo, !.buf = w.buf, !.row = 0, !.mode = mode,
                       !.done = TRUE]

\* ResultSet::row_count
row_count(c) == c.pos

\* stmt.query_as::<i32>(&[]) on a statement prepared with
\* StmtParam::Scrollable and StmtParam::FetchArraySize(size).
query_as(size) ==
    /\ cursor = NoCursor
    /\ cursor' = [NoCursor EXCEPT !.size = size]
    /\ UNCHANGED <<form, sub, result, calls, req, dlog, heap, reg, cb,
                   delivered, invoked, dereg, alive, app, given, overlap, stmts,
                   query, decoded, yielded>>

\* rows.fetch(mode) with a mode that stays within the result.
fetch(mode) ==
    /\ cursor.size # 0
    /\ Target(mode, cursor.pos) \in 1..NumRows
    /\ cursor' = MoveTo(cursor, mode, Target(mode, cursor.pos))
    /\ UNCHANGED <<form, sub, result, calls, req, dlog, heap, reg, cb,
                   delivered, invoked, dereg, alive, app, given, overlap, stmts,
                   query, decoded, yielded>>

\* One turn of "for row_result in rows": Iterator::next gives the next row,
\* or None after the last one, which ends the loop.
next_row ==
    /\ cursor.size # 0
    /\ ~cursor.done
    /\ LET t == Target(Mode("Next", 0), cursor.pos)
           c == IF t <= NumRows THEN MoveTo(cursor, Mode("Next", 0), t)
                ELSE [cursor EXCEPT !.row = 0, !.done = TRUE]
       IN  /\ cursor' = c
           /\ yielded' = IF c.done THEN yielded ELSE Append(yielded, c.row)
    /\ UNCHANGED <<form, sub, result, calls, req, dlog, heap, reg, cb,
                   delivered, invoked, dereg, alive, app, given, overlap, stmts,
                   query, decoded>>

\* ------------------------------------------------------------ specification

Outcomes == {"returned", "unwound", "aborted", "crashed"}

Next ==
    \/ \E i \in Ids, p \in Protocols : New(i, p)
    \/ \E i \in Ids, dur \in Durations : timeout(i, dur)
    \/ \E i \in Ids, dur \in Durations : grouping_class(i, dur)
    \/ \E i \in Ids : submit(i)
    \/ \E i \in Ids, extOk \in BOOLEAN : subscribe_returns(i, extOk)
    \/ \E i \in Ids, ok \in BOOLEAN : drop(i, ok)
    \/ \E h \in Ids, msg \in Messages : callback_wrapper(h, msg)
    \/ \E h \in Ids, out \in Outcomes : closure_ends(h, out)

Spec == Init /\ [][Next]_vars

\* The application thread alone, holding up to MaxOwners subscriptions at
\* once and attaching queries to them.
MaxOwners == 2
Owners == 1..MaxOwners

\* The protocols its forms are made of: both callbacks and an addressed one
\* of each module.
ApiProtocols == {p \in Protocols : p.variant \in {"Callback", "Mail"}}

InitApi ==
    /\ form = [i \in Owners |-> FormDefault]
    /\ sub = [i \in Owners |-> NoSub]
    /\ result = [i \in Owners |-> "none"]
    /\ calls = [i \in Owners |-> <<>>]
    /\ req = NoReq
    /\ dlog = [i \in Owners |-> <<>>]
    /\ heap = [a \in Owners |-> NoBox]
    /\ reg = [h \in Owners |-> NoReg]
    /\ cb = [h \in Owners |-> Idle]
    /\ delivered = 0
    /\ invoked = 0
    /\ dereg = [h \in Owners |-> FALSE]
    /\ alive = TRUE
    /\ app = 0
    /\ overlap = TRUE
    /\ stmts = {}
    /\ query = NoQuery
    /\ bits = 0
    /\ opcode = NoOpCode
    /\ raw = NullMsg
    /\ evt = NoArg
    /\ cursor = NoCursor
    /\ yielded = <<>>
    /\ given = [i \in Owners |-> NotGiven]

\* What the external system answers to the calls of one set_query: which of
\* prepare, execute and query-id retrieval succeed, and the identifier.  A
\* call after the first failing one is given as succeeding, and the
\* identifier matters only when the retrieval succeeds.
SetQueryInputs ==
    { x \in BOOLEAN \X BOOLEAN \X BOOLEAN \X QueryIds :
        /\ ~x[1] => x[2]
        /\ ~(x[1] /\ x[2]) => x[3]
        /\ ~(x[1] /\ x[2] /\ x[3]) => x[4] = 1 }

NextApi ==
    \/ \E i \in Owners, p \in ApiProtocols : New(i, p)
    \/ \E i \in Owners : submit(i)
    \/ \E i \in Owners, extOk \in BOOLEAN : subscribe_returns(i, extOk)
    \/ \E i \in Owners, x \in SetQueryInputs :
         set_query(i, x[1], x[2], x[3], x[4])
    \/ \E i \in Owners, ok \in BOOLEAN : drop(i, ok)

SpecApi == InitApi /\ [][NextApi]_vars

\* One form from SubscriptionForm::new through its setters to the end of
\* submit, with sample arguments for each setter.
QosSamples ==
    { DPI_SUBSCR_QOS_QUERY, BitOr(DPI_SUBSCR_QOS_RELIABLE, DPI_SUBSCR_QOS_ROWIDS) }
OpCodeSamples ==
    { DPI_OPCODE_INSERT, BitOr(DPI_OPCODE_UPDATE, DPI_OPCODE_DELETE) }
PortSamples == {1521}
NameSamples == {"", "sub1"}
AddrSamples == {"10.0.0.1"}
DurationSamples ==
    { Duration(U64(0, 0, 0, 5), 500000000), Duration(U64(0, 1, 0, 0), 0) }

NextForm ==
    \/ \E i \in Ids, p \in Protocols : New(i, p)
    \/ \E i \in Ids, q \in QosSamples : qos(i, q)
    \/ \E i \in Ids, oc \in OpCodeSamples : op_code(i, oc)
    \/ \E i \in Ids, n \in PortSamples : port(i, n)
    \/ \E i \in Ids, dur \in DurationSamples : timeout(i, dur)
    \/ \E i \in Ids, str \in NameSamples : name(i, str)
    \/ \E i \in Ids, addr \in AddrSamples : ip_address(i, addr)
    \/ \E i \in Ids, dur \in DurationSamples : grouping_class(i, dur)
    \/ \E i \in Ids, type_ \in GroupingTypes : grouping_type(i, type_)
    \/ \E i \in Ids : submit(i)
    \/ \E i \in Ids, extOk \in BOOLEAN : subscribe_returns(i, extOk)

SpecForm == Init /\ [][NextForm]_vars

\* The decoding of operation codes alone.
NextOpCode == \E b \in OpBits : OpCode_decode(b)

SpecOpCode == Init /\ [][NextOpCode]_vars

\* The decoding of change messages alone.
NextDecode == \E msg \in RawMessages : decode(msg)

SpecDecode == Init /\ [][NextDecode]_vars

\* scroll_sub: a scrollable cursor fetched by mode.
NextScroll ==
    \/ \E size \in FetchArraySizes : query_as(size)
    \/ \E mode \in Modes : fetch(mode)

SpecScroll == Init /\ [][NextScroll]_vars

\* iterate_scrollable_cursor: the for loop goes on until the iterator ends.
NextIterate ==
    \/ \E size \in FetchArraySizes : query_as(size)
    \/ next_row

SpecIterate == Init /\ [][NextIterate]_vars /\ WF_vars(NextIterate)


\* ------------------------------------------------------------------ claims

Frees(i) == {k \in DOMAIN dlog[i] : dlog[i][k].op = "free"}
Releases(i) == {k \in DOMAIN dlog[i] : dlog[i][k].op = "release"}

\* Whether a u64 fits the external system's 32-bit unsigned width.
FitsU32(x) == x[1] = 0 /\ x[2] = 0
Low32(x) == <<x[3], x[4]>>

\* The event codes each decoder recognizes.
CqnKnown ==
    { DPI_EVENT_OBJCHANGE, DPI_EVENT_QUERYCHANGE, DPI_EVENT_STARTUP,
      DPI_EVENT_SHUTDOWN, DPI_EVENT_SHUTDOWN_ANY, DPI_EVENT_DEREG }
AqKnown == { DPI_EVENT_AQ, DPI_EVENT_DEREG }
Recognized(tag, code) == IF tag = "CQN" THEN code \in CqnKnown ELSE code \in AqKnown

\* C1: Drop revokes first (dpiSubscr_release on the subscription's handle)
\* and frees the boxed closure only afterwards; a dropped subscription that
\* held a callback has its box freed exactly once, whether or not the
\* revocation succeeded, and one that held none frees nothing.
C1_ReleaseThenFreeOnce ==
    \A i \in Ids :
      /\ \A k \in Frees(i) :
           /\ k > 1
           /\ dlog[i][1].op = "release" /\ dlog[i][1].arg = sub[i].handle
           /\ dlog[i][k].arg = sub[i].callback
      /\ sub[i].st = "dropped" =>
           /\ Len(dlog[i]) >= 1
           /\ dlog[i][1].op = "release" /\ dlog[i][1].arg = sub[i].handle
           /\ IF sub[i].callback # 0
              THEN /\ Cardinality(Frees(i)) = 1
                   /\ heap[sub[i].callback].st = "freed"
              ELSE Frees(i) = {}

\* A subscription that submit returned, with a callback, dropped although
\* its revocation failed.
C1_Witness ==
    \E i \in Ids :
      /\ result[i] = "Ok" /\ sub[i].st = "dropped" /\ sub[i].callback # 0
      /\ ~dlog[i][1].ok
      /\ heap[sub[i].callback].st = "freed"

\* C2: while callback_wrapper runs for a registration, its context points to
\* a live boxed closure.
C2_NoUseAfterFree ==
    \A h \in Ids :
      cb[h].pc = "running" => heap[cb[h].context].st = "live"

\* C3: no subscription is revoked twice and no box is freed twice: a
\* dropped subscription cannot be dropped again.
C3_NoDoubleDispose ==
    /\ \A i \in Ids :
         /\ Cardinality(Releases(i)) <= 1
         /\ Cardinality(Frees(i)) <= 1
         /\ sub[i].st = "dropped" => ~ENABLED (\E ok \in BOOLEAN : drop(i, ok))
    /\ \A a \in Ids : heap[a].st # "doublefree"

\* A subscription with a callback that submit returned and that was dropped.
C3_Witness ==
    \E i \in Ids :
      /\ result[i] = "Ok" /\ sub[i].st = "dropped" /\ sub[i].callback # 0
      /\ Cardinality(Releases(i)) = 1 /\ Cardinality(Frees(i)) = 1

\* C4: when dpiConn_subscribe fails, submit returns the external error, no
\* live Subscription and no registration exists for the form, and the box
\* made for a Callback protocol was freed exactly once.
C4_SubscribeFailureFreesCallback ==
    \A i \in Ids :
      (calls[i] # <<>> /\ calls[i][Len(calls[i])] = "DPI_FAILURE") =>
        /\ result[i] = "ExternalError"
        /\ form[i].st = "consumed"
        /\ sub[i].st = "dropped" /\ sub[i].handle = 0
        /\ \A h \in Ids :
             reg[h].active /\ reg[h].callback => reg[h].context # sub[i].callback
        /\ sub[i].callback # 0 =>
             /\ heap[sub[i].callback].st = "freed"
             /\ Cardinality(Frees(i)) = 1

\* The external call failed for a form of the Callback protocol.
C4_Witness ==
    \E i \in Ids :
      /\ calls[i] = <<"DPI_FAILURE">>
      /\ sub[i].callback # 0
      /\ heap[sub[i].callback].st = "freed"

\* C5: a step of submit sends the whole seconds of the timeout, and of the
\* time-window grouping value when one is set, if each fits 32 bits;
\* otherwise submit returns a conversion error, makes no external call and
\* has freed the closure it boxed.
C5_SubmitStep(i) == form[i].st = "built" /\ form'[i].st = "consumed"

C5_WholeSecondsOrConversionError ==
    [][ \A i \in Ids :
          C5_SubmitStep(i) =>
            LET f == form[i]
                t == as_secs(f.timeout)
                g == as_secs(f.grouping_class.dur)
            IN  IF FitsU32(t) /\ (f.grouping_class.set => FitsU32(g))
                THEN /\ calls'[i] = <<"pending">>
                     /\ result'[i] = "none"
                     /\ req'.timeout = Low32(t)
                     /\ req'.groupingClassTime = f.grouping_class.set
                     /\ f.grouping_class.set => req'.groupingValue = Low32(g)
                ELSE /\ result'[i] = "ConversionError"
                     /\ calls'[i] = <<>>
                     /\ req' = NoReq
                     /\ sub'[i].st = "dropped"
                     /\ (f.callback # NoCallback) =>
                          /\ sub'[i].callback # 0
                          /\ heap'[sub'[i].callback].st = "freed"
                          /\ Cardinality({k \in DOMAIN dlog'[i] :
                                            dlog'[i][k].op = "free"}) = 1
      ]_vars

\* submit of a Callback form returned a conversion error.
C5_Witness ==
    \E i \in Ids :
      /\ result[i] = "ConversionError"
      /\ sub[i].callback # 0
      /\ heap[sub[i].callback].st = "freed"

\* C6: a form built from a cqn Protocol carries the change-notification
\* namespace and one built from an aq Protocol the message-queue namespace,
\* for every variant.
C6_NamespaceOfEventKind ==
    \A i \in Ids :
      form[i].st = "built" =>
        form[i].namespace = IF form[i].origin = "cqn"
                            THEN DPI_SUBSCR_NAMESPACE_DBCHANGE
                            ELSE DPI_SUBSCR_NAMESPACE_AQ

\* C6, the part about submit: the request of submit carries the namespace and
\* the protocol of its form unchanged.
C6_SubmitSendsFormNamespace ==
    [][ \A i \in Ids :
          (C5_SubmitStep(i) /\ app' = i) =>
            /\ req'.subscrNamespace = form[i].namespace
            /\ req'.protocol = form[i].protocol
      ]_vars

\* C7: a notification without embedded error whose event code the decoder
\* does not recognize reaches the closure as an unsupported-event-kind error.
C7_UnknownKindSurfacedAsErr ==
    \A h \in Ids :
      ( /\ cb[h].pc # "idle"
        /\ cb[h].msg.errorInfo = 0
        /\ ~Recognized(cb[h].tag, cb[h].msg.eventType) ) =>
        /\ cb[h].called
        /\ cb[h].arg = Err(UnsupportedEventType(cb[h].msg.eventType))

\* C8: no failure leaves callback_wrapper: the trampoline never ends by a
\* panic that unwinds into the external system or aborts the process.
C8_TrampolineReturnsNormally ==
    \A h \in Ids : cb[h].pc \notin UnwindOutcomes

\* C9: every notification handed to the trampoline has led to exactly one
\* call of the closure.
C9_OneInvocationPerNotification ==
    invoked = delivered

\* C10: a message with a non-null embedded error reaches the closure as Err
\* of that error, whatever its event code and other fields, and no Event is
\* built.
C10_EmbeddedErrorFirst ==
    \A h \in Ids :
      (cb[h].pc # "idle" /\ cb[h].msg.errorInfo # 0) =>
        /\ cb[h].called
        /\ cb[h].arg.k = "Err"
        /\ cb[h].arg.err = [kind |-> "DpiError", code |-> cb[h].msg.errorInfo]
        /\ cb[h].arg.ev = NoEvent

\* The closure runs on a message with an embedded error and an event code
\* that neither decoder recognizes.
C10_Witness ==
    \E h \in Ids :
      /\ cb[h].pc = "running" /\ cb[h].called
      /\ cb[h].msg.errorInfo # 0
      /\ cb[h].msg.eventType \notin CqnKnown \cup AqKnown
      /\ cb[h].msg.registered = 1

\* The calls of the last set_query other than dpiStmt_release.
C12_IsStep(c) == c.op # "dpiStmt_release"
C12_Steps == SelectSeq(query.calls, C12_IsStep)
C12_Order == <<"dpiSubscr_prepareStmt", "dpiStmt_execute", "dpiStmt_getSubscrQueryId">>

\* C11: when set_query has returned, on any of its exit paths, no statement
\* handle is open: a statement it prepared was released exactly once, as its
\* last external call, and a failed prepare left nothing to release.
C11_NoStatementLeftOpen ==
    /\ stmts = {}
    /\ query.sub # 0 =>
         LET cs == query.calls
             rel == {k \in DOMAIN cs : cs[k].op = "dpiStmt_release"}
         IN  IF cs[1].ok
             THEN /\ rel = {Len(cs)}
                  /\ cs[Len(cs)].handle = cs[1].handle
                  /\ cs[1].handle # 0
             ELSE rel = {}

\* set_query returned the failure of dpiStmt_execute.
C11_Witness ==
    /\ query.sub # 0
    /\ query.result = QueryErr("dpiStmt_execute")
    /\ Len(query.calls) = 3

\* C12: set_query calls prepare, execute and query-id retrieval in that
\* order, makes no call after one that failed and returns that failure; it
\* returns Ok exactly when all three succeeded, with the identifier the
\* external system reported.
C12_FirstFailureOrQueryId ==
    query.sub # 0 =>
      LET st == C12_Steps
          n == Len(st)
      IN  /\ n \in 1..3
          /\ \A k \in 1..n : st[k].op = C12_Order[k]
          /\ \A k \in 1..(n - 1) : st[k].ok
          /\ IF st[n].ok
             THEN n = 3 /\ query.result = [k |-> "Ok", id |-> st[3].out, err |-> ""]
             ELSE query.result = [k |-> "Err", id |-> 0, err |-> st[n].op]

\* set_query returned an identifier other than the first one.
C12_Witness ==
    /\ query.sub # 0
    /\ query.result.k = "Ok" /\ query.result.id > 1
    /\ Len(C12_Steps) = 3

\* A Subscription value that exists: being made by submit, returned by it, or
\* inside its Drop.
C15_Held(i) == sub[i].st \in {"submitting", "live", "dropping"}

\* C15: two Subscription values that exist never hold the same registration
\* handle or the same boxed closure, and the box of a Subscription that
\* submit returned is live (no other value freed it).
C15_ExclusiveOwnership ==
    /\ \A i, j \in DOMAIN sub :
         (i # j /\ C15_Held(i) /\ C15_Held(j)) =>
           /\ sub[i].handle # 0 => sub[i].handle # sub[j].handle
           /\ sub[i].callback # 0 => sub[i].callback # sub[j].callback
    /\ \A i \in DOMAIN sub :
         (sub[i].st = "live" /\ sub[i].callback # 0) =>
           heap[sub[i].callback].st = "live"

\* Two Subscriptions with a callback each are live after a set_query on one
\* of them.
C15_Witness ==
    \E i, j \in DOMAIN sub :
      /\ i # j
      /\ sub[i].st = "live" /\ sub[j].st = "live"
      /\ sub[i].callback # 0 /\ sub[j].callback # 0
      /\ query.sub = i

\* C16: submit consumes its form: no form leads to more than one
\* dpiConn_subscribe call, a consumed form can be neither submitted nor
\* configured again, and a Subscription comes only from a consumed form.
C16_FormConsumedBySubmit ==
    \A i \in Ids :
      /\ Len(calls[i]) <= 1
      /\ form[i].st = "consumed" =>
           /\ ~ENABLED submit(i)
           /\ ~ENABLED (\E dur \in Durations : timeout(i, dur))
      /\ sub[i].st # "none" => form[i].st = "consumed"
      /\ result[i] # "none" => form[i].st = "consumed"

\* A form whose submit failed in dpiConn_subscribe.
C16_Witness ==
    \E i \in Ids :
      /\ form[i].st = "consumed"
      /\ result[i] = "ExternalError"
      /\ calls[i] = <<"DPI_FAILURE">>

\* Whether bit n (0 the least significant) of x is set.
C13_Bit(x, n) == (x \div (2^n)) % 2 = 1

\* The bit positions of the declared OpCode constants.
C13_DefinedBits ==
    {n \in 0..(MaxOpBits - 1) :
       \E k \in DOMAIN OpCodeFlags : C13_Bit(OpCodeFlags[k], n)}

\* C13: decoding an operation code gives an OpCode for every bit pattern:
\* a bit of a declared flag is set in the result exactly when it is set in
\* the input, and no other bit is set in the result.
C13_TruncatingDecodeNeverFails ==
    opcode # NoOpCode =>
      /\ opcode.k = "Some"
      /\ opcode.bits \in 0..(2^MaxOpBits - 1)
      /\ \A n \in 0..(MaxOpBits - 1) :
           C13_Bit(opcode.bits, n) = (n \in C13_DefinedBits /\ C13_Bit(bits, n))

\* A code with the Insert bit and a bit of no declared flag was decoded.
C13_Witness ==
    /\ opcode.k = "Some"
    /\ C13_Bit(bits, 1) /\ C13_Bit(bits, 7)
    /\ opcode.bits # bits

C17_RowIs(row, r) ==
    /\ row.rowid = [n \in 1..r.rowidLength |-> r.rowid[n]]
    /\ row.operation = [k |-> "Some", bits |-> r.operation % (2 * DPI_OPCODE_UNKNOWN)]

\* Whether a decoded Table is the raw table, with its first numRows rows.
C17_TableIs(table, t) ==
    /\ table.name = [n \in 1..t.nameLength |-> t.name[n]]
    /\ table.operation = [k |-> "Some", bits |-> t.operation % (2 * DPI_OPCODE_UNKNOWN)]
    /\ Len(table.rows) = t.numRows
    /\ \A k \in 1..t.numRows : C17_RowIs(table.rows[k], t.rows[k])

\* C17: a change message without embedded error is decoded to an event whose
\* tables and queries, each query's tables and each table's rows are the
\* first count elements of the message's arrays, in order, with the name,
\* row id, query id and operation of the element at the same place; a
\* count of zero gives an empty sequence.
C17_NestedStructureReproduced ==
    (evt # NoArg /\ raw.errorInfo = 0) =>
      /\ evt.k = "Ok"
      /\ evt.ev.registered = (raw.registered = 1)
      /\ Len(evt.ev.tables) = raw.numTables
      /\ \A k \in 1..raw.numTables : C17_TableIs(evt.ev.tables[k], raw.tables[k])
      /\ Len(evt.ev.queries) = raw.numQueries
      /\ \A q \in 1..raw.numQueries :
           /\ evt.ev.queries[q].id = raw.queries[q].id
           /\ evt.ev.queries[q].operation =
                [k |-> "Some", bits |-> raw.queries[q].operation % (2 * DPI_OPCODE_UNKNOWN)]
           /\ Len(evt.ev.queries[q].tables) = raw.queries[q].numTables
           /\ \A j \in 1..raw.queries[q].numTables :
                C17_TableIs(evt.ev.queries[q].tables[j], raw.queries[q].tables[j])

\* A message with two tables, the first without rows and the second with
\* two, and one query with a table was decoded.
C17_Witness ==
    /\ evt.k = "Ok"
    /\ raw.numTables = 2
    /\ raw.tables[1].numRows = 0 /\ raw.tables[2].numRows = 2
    /\ raw.numQueries = 1 /\ raw.queries[1].numTables = 1
    /\ evt.ev.tables[1].rows = <<>>
    /\ Len(evt.ev.tables[2].rows) = 2

\* The event kind each recognized code stands for.
C18_Kind(code) ==
    IF code = DPI_EVENT_OBJCHANGE THEN "ObjectChange"
    ELSE IF code = DPI_EVENT_QUERYCHANGE THEN "QueryResultChange"
    ELSE IF code = DPI_EVENT_STARTUP THEN "Startup"
    ELSE IF code = DPI_EVENT_SHUTDOWN THEN "Shutdown"
    ELSE IF code = DPI_EVENT_SHUTDOWN_ANY THEN "ShutdownAny"
    ELSE IF code = DPI_EVENT_AQ THEN "AQ"
    ELSE "Deregister"

C19_Designated(mode, pos) ==
    IF mode.m = "Next" THEN pos + 1
    ELSE IF mode.m = "Prior" THEN pos - 1
    ELSE IF mode.m = "First" THEN 1
    ELSE IF mode.m = "Last" THEN NumRows
    ELSE IF mode.m = "Absolute" THEN mode.n
    ELSE pos + mode.n

\* C19: the row count of a scrollable cursor is 0 before any fetch; a fetch
\* that stays within the 10 rows returns the row its mode designates from
\* the current position and the row count is then that position, for every
\* fetch array size.
C19_FetchByModeReturnsDesignatedRow ==
    [][ /\ (cursor = NoCursor /\ cursor' # NoCursor) => row_count(cursor') = 0
        /\ (cursor # NoCursor /\ cursor' # cursor) =>
             LET d == C19_Designated(cursor'.mode, cursor.pos)
             IN  /\ ~cursor'.done
                 /\ cursor'.row = Rows[d]
                 /\ row_count(cursor') = d
      ]_vars

\* With a fetch array of 9 rows, Relative(-2) from row 9 has returned row 7.
C19_Witness ==
    /\ cursor.size = 9
    /\ cursor.mode = Mode("Relative", -2)
    /\ cursor.row = 7 /\ row_count(cursor) = 7

\* C20: the iteration of a scrollable cursor yields the rows in result
\* order, none twice, and ends after it has yielded all of them, also with
\* a fetch array size that does not divide the number of rows.
C20_IterationYieldsEveryRowOnce ==
    /\ [](yielded = SubSeq(Rows, 1, Len(yielded)))
    /\ [](cursor.done => yielded = Rows)
    /\ <>(cursor.done /\ yielded = Rows)

\* The iteration with a fetch array of 3 rows has ended after 10 rows.
C20_Witness ==
    /\ cursor.size = 3
    /\ cursor.done
    /\ Len(yielded) = 10

\* The tag init_form stores with a closure of each module.
C21_TagOf(origin) == IF origin = "cqn" THEN "CQN" ELSE "AQ"

\* The decode callback_wrapper makes for a closure stored with a tag.
C21_DecodeOf(tag, msg) ==
    IF tag = "CQN" THEN cqn_Event_new(msg) ELSE aq_Event_new(msg)

\* C21: the trampoline dispatches on the tag stored with the closure: a form
\* made with a closure of the cqn protocol stores it tagged CQN, one of the
\* aq protocol tagged AQ, and the closure callback_wrapper runs is the one
\* boxed at its context, called with the decode of the message its stored
\* tag selects.
C21_DispatchOnStoredTag ==
    /\ \A i \in DOMAIN form :
         (form[i].st = "built" /\ form[i].callback # NoCallback) =>
           form[i].callback = C21_TagOf(form[i].origin)
    /\ \A h \in DOMAIN cb :
         cb[h].pc = "running" =>
           LET stored == heap[cb[h].context].tag
           IN  /\ cb[h].tag = stored
               /\ cb[h].arg = C21_DecodeOf(stored, cb[h].msg)

\* The step in which submit of form i returns Ok(subscr).
C22_SubmitOk(i) == result[i] # "Ok" /\ result'[i] = "Ok"

\* C22: a form holds exactly one delivery mechanism, whatever setters were
\* called on it: a closure and no recipient when it was made of a Callback
\* protocol, a recipient and no closure when made of Mail, PlSql or Http;
\* and the Subscription a successful submit returns has a non-null handle
\* and a callback token exactly when the protocol was Callback.
C22_OneDeliveryMechanism ==
    /\ [](\A i \in Ids :
            form[i].st = "built" =>
              IF given[i].protocol.v.variant = "Callback"
              THEN /\ form[i].callback # NoCallback
                   /\ form[i].recipient = NoRecipient
              ELSE /\ form[i].callback = NoCallback
                   /\ form[i].recipient # NoRecipient)
    /\ [][ \A i \in Ids :
             C22_SubmitOk(i) =>
               /\ sub'[i].st = "live"
               /\ sub'[i].handle # 0
               /\ (sub'[i].callback # 0) = (req.protocol = DPI_SUBSCR_PROTO_CALLBACK)
         ]_vars

\* A submit that succeeded for a form of an addressed protocol: the
\* Subscription has a handle and no callback token.
C22_Witness ==
    \E i \in Ids :
      /\ result[i] = "Ok" /\ sub[i].st = "live"
      /\ sub[i].handle # 0 /\ sub[i].callback = 0
      /\ ~reg[sub[i].handle].callback

\* The value a field holds after the calls recorded for its setter: the
\* argument of the last one, or the field's default when there was none.
C23_LastOr(g, default) == IF g.set THEN g.v ELSE default

\* The fields of form i a step changes.
C23_Changed(i) == {k \in DOMAIN form[i] : form'[i][k] # form[i][k]}

\* C23: each setter replaces its own field with the value given and leaves
\* every other field as it was: a step on a form under construction changes
\* at most one field, and after any sequence of setter calls each settable
\* field holds the argument of the last call of its setter, or its default
\* when its setter was never called, while namespace, protocol, callback and
\* recipient are those init_form wrote.
C23_SettersReplaceOwnField ==
    /\ [](\A i \in Ids :
            form[i].st = "built" =>
              LET f == form[i]
                  g == given[i]
                  made == init_form(g.protocol.v, FormDefault)
              IN  /\ f.qos = C23_LastOr(g.qos, 0)
                  /\ f.op_code = C23_LastOr(g.op_code, 0)
                  /\ f.port = C23_LastOr(g.port, 0)
                  /\ f.timeout = C23_LastOr(g.timeout, Duration(U64(0, 0, 0, 0), 0))
                  /\ f.name = C23_LastOr(g.name, "")
                  /\ f.ip_address = C23_LastOr(g.ip_address, "")
                  /\ f.grouping_class = C23_LastOr(g.grouping_class, NoGrouping)
                  /\ f.grouping_type = C23_LastOr(g.grouping_type, NoGroupingType)
                  /\ g.protocol.set
                  /\ f.namespace = made.namespace
                  /\ f.protocol = made.protocol
                  /\ f.callback = made.callback
                  /\ f.recipient = made.recipient)
    /\ [][ \A i \in Ids :
             (form[i].st = "built" /\ form'[i].st = "built") =>
               Cardinality(C23_Changed(i)) <= 1
         ]_vars

\* A form of a Callback protocol on which name was called with "sub1" and
\* then with the empty string, ip_address and qos were called, and port
\* never was.
C23_Witness ==
    \E i \in Ids :
      /\ form[i].st = "built" /\ form[i].callback # NoCallback
      /\ given[i].name = Given("") /\ form[i].name = ""
      /\ given[i].ip_address.set /\ form[i].ip_address = "10.0.0.1"
      /\ given[i].qos.set /\ form[i].qos = DPI_SUBSCR_QOS_QUERY
      /\ ~given[i].port.set /\ form[i].port = 0

\* C24: dpiSubscr_release is only called on a handle that a successful
\* dpiConn_subscribe produced: every release Drop has run for form i is on
\* a non-null handle, that of the Subscription its submit returned, and a
\* submit that failed has released nothing.
C24_ReleaseOnlyCreatedHandles ==
    \A i \in Ids :
      /\ \A k \in Releases(i) :
           /\ dlog[i][k].arg # 0
           /\ dlog[i][k].arg = sub[i].handle
           /\ result[i] = "Ok"
      /\ result[i] \in {"ConversionError", "ExternalError"} => Releases(i) = {}

\* The positions of the dpiStmt_release calls of the last set_query.
C25_Released == {k \in DOMAIN query.calls : query.calls[k].op = "dpiStmt_release"}

\* C25: one set_query call releases the statement exactly once when
\* dpiSubscr_prepareStmt succeeded, as its last external call and on the
\* handle prepare gave, so after every use of that handle; it releases
\* nothing when prepare failed.
C25_ReleaseOnceAfterLastUse ==
    query.sub # 0 =>
      LET cs == query.calls
      IN  /\ cs # <<>>
          /\ cs[1].op = "dpiSubscr_prepareStmt"
          /\ IF cs[1].ok
             THEN /\ Cardinality(C25_Released) = 1
                  /\ C25_Released = {Len(cs)}
                  /\ cs[Len(cs)].handle = cs[1].handle
                  /\ cs[1].handle # 0
                  /\ \A k \in DOMAIN cs : cs[k].handle = cs[1].handle
             ELSE C25_Released = {}

\* A set_query whose query-id retrieval failed: four external calls, the
\* last one the release.
C25_Witness ==
    /\ query.sub # 0
    /\ query.result = QueryErr("dpiStmt_getSubscrQueryId")
    /\ Len(query.calls) = 4
    /\ C25_Released = {4}

\* C26: set_query leaves the Subscription as it was, whether it returns Ok
\* or Err: the handle and the callback token are the same after the call,
\* nothing was released or freed, the registration is still active and the
\* boxed closure still live; and set_query can be called on every live
\* Subscription, whatever calls were made on it before.
C26_SetQueryLeavesSubscription ==
    /\ [][ query' # query =>
             LET i == query'.sub
             IN  /\ sub' = sub
                 /\ sub'[i].st = "live"
                 /\ reg' = reg /\ reg'[sub[i].handle].active
                 /\ heap' = heap
                 /\ sub[i].callback # 0 => heap'[sub[i].callback].st = "live"
                 /\ dlog' = dlog /\ dlog'[i] = <<>>
         ]_vars
    /\ [](\A i \in DOMAIN sub :
            (sub[i].st = "live" /\ app = 0) =>
              ENABLED set_query(i, TRUE, TRUE, TRUE, 1))

\* A set_query that failed on a Subscription with a callback: the
\* Subscription is live, its registration active and its closure not freed.
C26_Witness ==
    /\ query.sub # 0
    /\ query.result.k = "Err"
    /\ sub[query.sub].st = "live"
    /\ sub[query.sub].callback # 0
    /\ heap[sub[query.sub].callback].st = "live"
    /\ reg[sub[query.sub].handle].active

====
